---------------------------- MODULE Spec2Model ----------------------------
(***************************************************************************)
(* A model of hamstall's config.py: the JSON database and its config      *)
(* accessors, the lock file, and the line-oriented file editor.           *)
(*                                                                         *)
(* Text is modelled as a sequence of one-character strings, a Python dict *)
(* as a TLA+ function whose DOMAIN is the set of keys present, and a      *)
(* Python value as its JSON spelling ("true", "false", ".zshrc").         *)
(***************************************************************************)
EXTENDS Integers, Sequences, FiniteSets, TLC

(***************************************************************************)
(* Bounds of the model.                                                    *)
(***************************************************************************)
MaxFileLen == 5
MaxQueryLen == 2
NumProcs == 3
MaxCalls == 4
MaxDirLen == 3
MaxStemLen == 2

VARIABLES
    fileText,   \* content of the text file under management
    before,     \* content of that file before the editor calls made on it
    flast,      \* the last editor call: [op, line, mode, n], n counting repeats
    fret,       \* what the last editor call returned
    lockFile,   \* whether /tmp/hamstall-lock exists
    lpc,        \* where each invocation stands
    seen,       \* what locked() last returned to each invocation
    lverbose,   \* each invocation's module-level verbose
    lout,       \* what each invocation's last call printed
    lexc,       \* the exception each invocation's last call raised, or "none"
    calls,      \* the lock calls one invocation has made, oldest first
    pc,         \* where the invocation that owns the database stands
    db,         \* the module-level db
    disk,       \* ~/.hamstall/database: [kind, text]
    verbose,    \* the module-level verbose
    branch,     \* the module-level branch
    last,       \* the last call: [op, key, mode, value, absent, open, outcome]
    ret,        \* what the last call returned
    out,        \* what the last call printed, oldest first
    dumped,     \* the JSON text the last call printed: [done, text]
    exitStatus, \* the status of sys.exit, 0 while the process runs
    program,    \* the path given to name() and extension()
    plast,      \* which of the two was last called, "none" before
    pret        \* what it returned

fvars == <<fileText, before, flast, fret>>
lvars == <<lockFile, lpc, seen, lverbose, lout, lexc, calls>>

dvars == <<pc, db, disk, verbose, branch, last, ret, out, dumped, exitStatus>>
pvars == <<program, plast, pret>>

vars == <<fileText, before, flast, fret,
          lockFile, lpc, seen, lverbose, lout, lexc, calls,
          pc, db, disk, verbose, branch, last, ret, out, dumped, exitStatus,
          program, plast, pret>>

(***************************************************************************)
(* Python values by their JSON spelling, and their truth value.            *)
(***************************************************************************)
Values == {"true", "false", ".zshrc"}
Truthy(v) == v \notin {"false"}
Not(v) == IF Truthy(v) THEN "false" ELSE "true"

\* vprint(to_print): what it prints, given the module-level verbose.
vprint(v, to_print) == IF Truthy(v) THEN <<to_print>> ELSE <<>>

\* The database at rest, for the specifications that do not use it.
NoCall ==
    [op |-> "none", key |-> "", mode |-> "", value |-> "", absent |-> FALSE,
     open |-> "none", outcome |-> "none"]

DbIdle ==
    /\ pc = "start"
    /\ db = <<>>
    /\ disk = [kind |-> "absent", text |-> {}]
    /\ verbose = "false"
    /\ branch = "master"
    /\ last = NoCall
    /\ ret = "None"
    /\ out = <<>>
    /\ dumped = [done |-> FALSE, text |-> {}]
    /\ exitStatus = 0

\* name() and extension() not called, for the specifications that do not use
\* them.
NameIdle ==
    /\ program = <<>>
    /\ plast = "none"
    /\ pret = <<>>

\* The file editor at rest, for the specifications that do not use it.
FileIdle ==
    /\ fileText = <<>>
    /\ before = <<>>
    /\ flast = [op |-> "none", line |-> <<>>, mode |-> "none", n |-> 0]
    /\ fret = FALSE

(***************************************************************************)
(* The lock file.                                                          *)
(***************************************************************************)
Procs == 1..NumProcs

\* exists(file_name): os.path.isfile of the path.
exists(file) == file

\* locked(): whether the lock file exists.
locked(file) == exists(file)

\* create(file_path): open(..., "w+") and close; the file exists afterwards,
\* whether or not it did.
create(file) == TRUE

\* lock(): the lock file after it.
lock(file) == create(file)

\* os.remove(path): the file after it, and the exception it raises.
os_remove(file) ==
    IF file THEN [file |-> FALSE, exc |-> "none"]
    ELSE [file |-> FALSE, exc |-> "FileNotFoundError"]

\* unlock() as it would be without its try/except.
unlock_uncaught(file) == os_remove(file)

\* unlock() as it would be if it left the lock file in place.
unlock_kept(file) == [file |-> file, exc |-> "none"]

\* unlock(): os.remove with FileNotFoundError passed over.
unlock(file) ==
    LET r == os_remove(file)
    IN [file |-> r.file,
        exc |-> IF r.exc = "FileNotFoundError" THEN "none" ELSE r.exc]

LockIdle ==
    /\ lockFile = FALSE
    /\ lpc = [p \in Procs |-> "start"]
    /\ seen = [p \in Procs |-> FALSE]
    /\ lverbose = [p \in Procs |-> "false"]
    /\ lout = [p \in Procs |-> <<>>]
    /\ lexc = [p \in Procs |-> "none"]
    /\ calls = <<>>

(***************************************************************************)
(* Invocations that follow the protocol: check locked(), abort if it is   *)
(* true, otherwise lock(), do the protected work, unlock().                *)
(***************************************************************************)
LockInit ==
    /\ lockFile \in BOOLEAN
    /\ lpc = [p \in Procs |-> "start"]
    /\ seen = [p \in Procs |-> FALSE]
    /\ lverbose \in [Procs -> {"true", "false"}]
    /\ lout = [p \in Procs |-> <<>>]
    /\ lexc = [p \in Procs |-> "none"]
    /\ calls = <<>>
    /\ FileIdle
    /\ DbIdle
    /\ NameIdle

CheckLocked(p) ==
    /\ lpc[p] = "start"
    /\ seen' = [seen EXCEPT ![p] = locked(lockFile)]
    /\ lpc' = [lpc EXCEPT ![p] = IF locked(lockFile) THEN "aborted" ELSE "tolock"]
    /\ lout' = [lout EXCEPT ![p] = <<>>]
    /\ UNCHANGED <<lockFile, lverbose, lexc, calls>>

Lock(p) ==
    /\ lpc[p] = "tolock"
    /\ lockFile' = lock(lockFile)
    /\ lout' = [lout EXCEPT ![p] = vprint(lverbose[p], "Lock created!")]
    /\ lpc' = [lpc EXCEPT ![p] = "work"]
    /\ UNCHANGED <<seen, lverbose, lexc, calls>>

Unlock(p) ==
    /\ lpc[p] = "work"
    /\ LET r == unlock(lockFile)
       IN /\ lockFile' = r.file
          /\ lexc' = [lexc EXCEPT ![p] = r.exc]
          /\ lout' = [lout EXCEPT ![p] =
                IF r.exc = "none" THEN vprint(lverbose[p], "Lock removed!")
                ELSE <<>>]
          /\ lpc' = [lpc EXCEPT ![p] = IF r.exc = "none" THEN "done" ELSE "raised"]
    /\ UNCHANGED <<seen, lverbose, calls>>

LockNext ==
    \/ \E p \in Procs : CheckLocked(p) /\ UNCHANGED <<fvars, dvars, pvars>>
    \/ \E p \in Procs : Lock(p) /\ UNCHANGED <<fvars, dvars, pvars>>
    \/ \E p \in Procs : Unlock(p) /\ UNCHANGED <<fvars, dvars, pvars>>

SpecLock == LockInit /\ [][LockNext]_vars

InWork == {p \in Procs : lpc[p] = "work"}

\* C2: of the invocations that follow the protocol, at most one is inside
\* its protected work at any time.
C2_MutualExclusion == Cardinality(InWork) <= 1

(***************************************************************************)
(* One invocation calling lock(), unlock() and locked() in any order.     *)
(***************************************************************************)
\* The invocation that makes the calls.
Me == CHOOSE p \in Procs : \A q \in Procs : p <= q

SeqInit ==
    /\ lockFile \in BOOLEAN
    /\ lpc = [p \in Procs |-> "start"]
    /\ seen = [p \in Procs |-> FALSE]
    /\ lverbose \in {[p \in Procs |-> v] : v \in {"true", "false"}}
    /\ lout = [p \in Procs |-> <<>>]
    /\ lexc = [p \in Procs |-> "none"]
    /\ calls = <<>>
    /\ FileIdle
    /\ DbIdle
    /\ NameIdle

CanCall == Len(calls) < MaxCalls /\ lexc[Me] = "none"

CallLock ==
    /\ CanCall
    /\ lockFile' = lock(lockFile)
    /\ lout' = [lout EXCEPT ![Me] = vprint(lverbose[Me], "Lock created!")]
    /\ calls' = Append(calls, "lock")
    /\ UNCHANGED <<lpc, seen, lverbose, lexc>>

CallUnlock ==
    /\ CanCall
    /\ LET r == unlock(lockFile)
       IN /\ lockFile' = r.file
          /\ lexc' = [lexc EXCEPT ![Me] = r.exc]
          /\ lout' = [lout EXCEPT ![Me] =
                IF r.exc = "none" THEN vprint(lverbose[Me], "Lock removed!")
                ELSE <<>>]
    /\ calls' = Append(calls, "unlock")
    /\ UNCHANGED <<lpc, seen, lverbose>>

CallLocked ==
    /\ CanCall
    /\ seen' = [seen EXCEPT ![Me] = locked(lockFile)]
    /\ lout' = [lout EXCEPT ![Me] = <<>>]
    /\ calls' = Append(calls, "locked")
    /\ UNCHANGED <<lockFile, lpc, lverbose, lexc>>

SeqNext ==
    \/ CallLock /\ UNCHANGED <<fvars, dvars, pvars>>
    \/ CallUnlock /\ UNCHANGED <<fvars, dvars, pvars>>
    \/ CallLocked /\ UNCHANGED <<fvars, dvars, pvars>>

SpecLockSeq == SeqInit /\ [][SeqNext]_vars

\* The last lock() or unlock() among the calls made, "none" if there is none.
LastLockCall ==
    LET at == {i \in 1..Len(calls) : calls[i] \in {"lock", "unlock"}}
    IN IF at = {} THEN "none"
       ELSE calls[CHOOSE i \in at : \A j \in at : j <= i]

\* C3: after any sequence of lock() and unlock() calls of one invocation, from
\* either lock state, locked() is true iff the last of them was lock() and
\* false iff it was unlock(); no call raises, unlock() of an absent lock file
\* included.
C3_LockedTracksLastCall ==
    /\ lexc[Me] = "none"
    /\ LastLockCall = "lock" => locked(lockFile)
    /\ LastLockCall = "unlock" => ~locked(lockFile)
    /\ (calls # <<>> /\ calls[Len(calls)] = "locked" /\ LastLockCall # "none")
          => (seen[Me] <=> LastLockCall = "lock")

C3_Witness ==
    /\ Len(calls) = 4
    /\ calls[1] = "lock"
    /\ calls[2] = "unlock"
    /\ calls[3] = "unlock"
    /\ calls[4] = "locked"
    /\ ~seen[Me]
    /\ lexc[Me] = "none"

(***************************************************************************)
(* Several invocations calling lock(), unlock() and locked() in any order, *)
(* none bound to the protocol.  An invocation is in its protected work     *)
(* from its lock() to its own unlock().                                    *)
(***************************************************************************)
AnyInit ==
    /\ lockFile \in BOOLEAN
    /\ lpc = [p \in Procs |-> "start"]
    /\ seen = [p \in Procs |-> FALSE]
    /\ lverbose \in {[p \in Procs |-> v] : v \in {"true", "false"}}
    /\ lout = [p \in Procs |-> <<>>]
    /\ lexc = [p \in Procs |-> "none"]
    /\ calls = <<>>
    /\ FileIdle
    /\ DbIdle
    /\ NameIdle

AnyLock(p) ==
    /\ Len(calls) < MaxCalls
    /\ lpc[p] = "start"
    /\ lockFile' = lock(lockFile)
    /\ lout' = [lout EXCEPT ![p] = vprint(lverbose[p], "Lock created!")]
    /\ lpc' = [lpc EXCEPT ![p] = "work"]
    /\ calls' = Append(calls, [p |-> p, op |-> "lock"])
    /\ UNCHANGED <<seen, lverbose, lexc>>

AnyUnlock(p) ==
    /\ Len(calls) < MaxCalls
    /\ LET r == unlock(lockFile)
       IN /\ lockFile' = r.file
          /\ lexc' = [lexc EXCEPT ![p] = r.exc]
          /\ lout' = [lout EXCEPT ![p] =
                IF r.exc = "none" THEN vprint(lverbose[p], "Lock removed!")
                ELSE <<>>]
    /\ lpc' = [lpc EXCEPT ![p] = IF @ = "work" THEN "done" ELSE @]
    /\ calls' = Append(calls, [p |-> p, op |-> "unlock"])
    /\ UNCHANGED <<seen, lverbose>>

AnyLocked(p) ==
    /\ Len(calls) < MaxCalls
    /\ seen' = [seen EXCEPT ![p] = locked(lockFile)]
    /\ lout' = [lout EXCEPT ![p] = <<>>]
    /\ calls' = Append(calls, [p |-> p, op |-> "locked"])
    /\ UNCHANGED <<lockFile, lpc, lverbose, lexc>>

AnyNext ==
    \/ \E p \in Procs : AnyLock(p) /\ UNCHANGED <<fvars, dvars, pvars>>
    \/ \E p \in Procs : AnyUnlock(p) /\ UNCHANGED <<fvars, dvars, pvars>>
    \/ \E p \in Procs : AnyLocked(p) /\ UNCHANGED <<fvars, dvars, pvars>>

SpecLockAny == AnyInit /\ [][AnyNext]_vars

\* C18: the lock has no owner.  Every lock() succeeds, the file being there
\* before or not; every unlock() succeeds and removes the file, whoever
\* made it; so the file is there exactly when the last lock() or unlock() of
\* any invocation was a lock(), and locked() answers that to every caller,
\* the invocations inside their protected work included.
C18_LockHasNoOwner ==
    LET at == {i \in 1..Len(calls) : calls[i].op \in {"lock", "unlock"}}
    IN /\ \A p \in Procs : lexc[p] = "none"
       /\ at # {} =>
             LET i == CHOOSE i \in at : \A j \in at : j <= i
             IN locked(lockFile) <=> calls[i].op = "lock"
       /\ (calls # <<>> /\ calls[Len(calls)].op = "locked") =>
             seen[calls[Len(calls)].p] = locked(lockFile)

\* An invocation that never called lock() has called unlock(), and locked()
\* then answers false to the invocation that made the lock and has not
\* unlocked.
C18_Witness ==
    /\ Len(calls) >= 3
    /\ LET u == calls[Len(calls) - 1]
           c == calls[Len(calls)]
       IN /\ u.op = "unlock"
          /\ \A i \in 1..Len(calls) : calls[i].p = u.p => calls[i].op # "lock"
          /\ c.op = "locked"
          /\ c.p # u.p
          /\ lpc[c.p] = "work"
          /\ seen[c.p] = FALSE

(***************************************************************************)
(* Text.                                                                   *)
(***************************************************************************)
Chars == {"a", "#", " ", "\n"}
QueryChars == {"a", "#", " "}
Whitespace == {" ", "\n"}

SeqsUpTo(S, n) == UNION {[1..k -> S] : k \in 0..n}

Files == SeqsUpTo(Chars, MaxFileLen)
\* The line or word a caller asks about: never the empty string.
Queries == SeqsUpTo(QueryChars, MaxQueryLen) \ {<<>>}

\* f.readlines(): the lines of the text, each with its "\n" when it has one.
RECURSIVE readlines(_)
readlines(text) ==
    IF text = <<>> THEN <<>>
    ELSE LET nl == {i \in 1..Len(text) : text[i] = "\n"}
             end == IF nl = {} THEN Len(text)
                    ELSE CHOOSE i \in nl : \A j \in nl : i <= j
         IN <<SubSeq(text, 1, end)>> \o readlines(SubSeq(text, end + 1, Len(text)))

\* str.rstrip(): the string without its trailing whitespace.
RECURSIVE rstrip(_)
rstrip(s) ==
    IF s = <<>> THEN s
    ELSE IF s[Len(s)] \in Whitespace THEN rstrip(SubSeq(s, 1, Len(s) - 1))
    ELSE s

\* str.split(): the maximal runs of non-whitespace characters.
RECURSIVE split(_)
split(s) ==
    IF s = <<>> THEN <<>>
    ELSE IF Head(s) \in Whitespace THEN split(Tail(s))
    ELSE LET stops == {i \in 1..Len(s) : s[i] \in Whitespace}
             n == IF stops = {} THEN Len(s)
                  ELSE (CHOOSE i \in stops : \A j \in stops : i <= j) - 1
         IN <<SubSeq(s, 1, n)>> \o split(SubSeq(s, n + 1, Len(s)))

\* x in <list>: some element equals x.
InList(x, l) == \E i \in 1..Len(l) : l[i] = x

\* x in <str>: x is a contiguous part of the string.
InStr(x, s) == \E i \in 0..(Len(s) - Len(x)) : SubSeq(s, i + 1, i + Len(x)) = x

\* new_l of the loops of check_line and remove_line: a token list in the
\* word modes, the trimmed string in fuzzy mode.
NewL(l, mode) == IF mode = "fuzzy" THEN rstrip(l) ELSE split(rstrip(l))

\* "line in new_l" as it would be with fuzzy mode comparing whole lines.
LineInEq(line, l, mode) ==
    IF mode = "fuzzy" THEN rstrip(l) = line ELSE InList(line, NewL(l, mode))

\* "line in new_l" as it would be with new_l left unsplit in the word modes.
LineInNoSplit(line, l, mode) == InStr(line, rstrip(l))

\* "line in new_l", on a list in the word modes and on a string in fuzzy mode.
LineIn(line, l, mode) ==
    IF mode = "fuzzy" THEN InStr(line, NewL(l, mode))
    ELSE InList(line, NewL(l, mode))

\* "'#' in new_l".
PoundIn(l, mode) ==
    IF mode = "fuzzy" THEN InStr(<<"#">>, NewL(l, mode))
    ELSE InList(<<"#">>, NewL(l, mode))

\* The test of line 371 as it would be without its "not".
KeepMatchedFlipped(l, mode) == PoundIn(l, mode) /\ mode = "poundword"

\* The test of line 371: a matched line is written back when it holds.
KeepMatched(l, mode) == (~PoundIn(l, mode)) /\ mode = "poundword"

\* The loop of remove_line over the lines read: the text written back.
RECURSIVE RewriteLoop(_, _, _)
RewriteLoop(open_file, line, mode) ==
    IF open_file = <<>> THEN <<>>
    ELSE LET l == Head(open_file)
             kept == IF LineIn(line, l, mode)
                     THEN (IF KeepMatched(l, mode) THEN l ELSE <<>>)
                     ELSE l
         IN kept \o RewriteLoop(Tail(open_file), line, mode)

\* remove_line() as it would be if it ended what it writes with one more
\* newline.
remove_line_newline(line, text, mode) ==
    RewriteLoop(readlines(text), line, mode) \o <<"\n">>

remove_line(line, text, mode) == RewriteLoop(readlines(text), line, mode)

\* The loop of check_line: True at the first line that matches.
RECURSIVE CheckLoop(_, _, _)
CheckLoop(open_file, line, mode) ==
    IF open_file = <<>> THEN FALSE
    ELSE IF LineIn(line, Head(open_file), mode) THEN TRUE
    ELSE CheckLoop(Tail(open_file), line, mode)

\* check_line() as it would be if its loop returned at the first line.
check_line_first(line, text, mode) ==
    readlines(text) # <<>> /\ LineIn(line, Head(readlines(text)), mode)

check_line(line, text, mode) == CheckLoop(readlines(text), line, mode)

(***************************************************************************)
(* The file editor as a state machine.                                     *)
(***************************************************************************)
RemoveModes == {"word", "poundword", "fuzzy"}
CheckModes == {"word", "fuzzy"}

FileInit ==
    /\ fileText \in Files
    /\ before = fileText
    /\ flast = [op |-> "none", line |-> <<>>, mode |-> "none", n |-> 0]
    /\ fret = FALSE
    /\ LockIdle
    /\ DbIdle
    /\ NameIdle

\* remove_line(line, file_path, mode) on the file as first found.
RemoveLine(line, mode) ==
    /\ flast.op = "none"
    /\ before' = fileText
    /\ fileText' = remove_line(line, fileText, mode)
    /\ flast' = [op |-> "remove_line", line |-> line, mode |-> mode, n |-> 1]
    /\ fret' = FALSE

\* The same remove_line call made once more on the file it left.
RemoveLineAgain ==
    /\ flast.op = "remove_line"
    /\ flast.n = 1
    /\ UNCHANGED before
    /\ fileText' = remove_line(flast.line, fileText, flast.mode)
    /\ flast' = [flast EXCEPT !.n = 2]
    /\ fret' = FALSE

\* check_line(line, file_path, mode) on the file as first found.
CheckLine(line, mode) ==
    /\ flast.op = "none"
    /\ before' = fileText
    /\ fileText' = fileText
    /\ flast' = [op |-> "check_line", line |-> line, mode |-> mode, n |-> 1]
    /\ fret' = check_line(line, fileText, mode)

FileNext ==
    \/ \E line \in Queries, mode \in RemoveModes :
          RemoveLine(line, mode) /\ UNCHANGED <<lvars, dvars, pvars>>
    \/ RemoveLineAgain /\ UNCHANGED <<lvars, dvars, pvars>>
    \/ \E line \in Queries, mode \in CheckModes :
          CheckLine(line, mode) /\ UNCHANGED <<lvars, dvars, pvars>>

SpecFile == FileInit /\ [][FileNext]_vars

(***************************************************************************)
(* What the claims about the file editor speak of, stated without the     *)
(* editor's own helpers: tokens by their position between whitespace, the *)
(* trimmed content as the shortest prefix followed by whitespace only.    *)
(***************************************************************************)
HasToken(l, w) ==
    /\ w # <<>>
    /\ \A i \in 1..Len(w) : w[i] \notin Whitespace
    /\ \E i \in 1..(Len(l) - Len(w) + 1) :
          /\ \A k \in 1..Len(w) : l[i + k - 1] = w[k]
          /\ i = 1 \/ l[i - 1] \in Whitespace
          /\ i + Len(w) > Len(l) \/ l[i + Len(w)] \in Whitespace

Trimmed(l) ==
    LET n == CHOOSE m \in 0..Len(l) :
                 /\ \A i \in (m + 1)..Len(l) : l[i] \in Whitespace
                 /\ m = 0 \/ l[m] \notin Whitespace
    IN [i \in 1..n |-> l[i]]

IsPartOf(q, s) ==
    \E i \in 0..Len(s), j \in 0..Len(s) :
        /\ i + Len(q) + j = Len(s)
        /\ \A k \in 1..Len(q) : s[i + k] = q[k]

RECURSIVE Flatten(_)
Flatten(ls) == IF ls = <<>> THEN <<>> ELSE Head(ls) \o Flatten(Tail(ls))

LinesBefore == readlines(before)

Removed(mode) == flast.op = "remove_line" /\ flast.mode = mode
Checked(mode) == flast.op = "check_line" /\ flast.mode = mode

\* C6 as claimed: poundword removes the lines that hold the token and no
\* '#' token, and keeps every other line in order.
C6_PoundwordKeepsPoundLines ==
    Removed("poundword") =>
        fileText = Flatten(SelectSeq(LinesBefore,
            LAMBDA l : ~(HasToken(l, flast.line) /\ ~HasToken(l, <<"#">>))))

\* C6 as amended: poundword removes exactly the lines that hold both the
\* token and a '#' token; a matching line without a '#' token is kept, and
\* the kept lines stay in their order.
C6_PoundwordRemovesPoundLines ==
    Removed("poundword") =>
        /\ fileText = Flatten(SelectSeq(LinesBefore,
              LAMBDA l : ~(HasToken(l, flast.line) /\ HasToken(l, <<"#">>))))
        /\ readlines(fileText) = SelectSeq(LinesBefore,
              LAMBDA l : ~(HasToken(l, flast.line) /\ HasToken(l, <<"#">>)))

C6_Witness ==
    /\ Removed("poundword")
    /\ flast.n = 1
    /\ \E i, j \in 1..Len(LinesBefore) :
          /\ HasToken(LinesBefore[i], flast.line)
          /\ HasToken(LinesBefore[i], <<"#">>)
          /\ HasToken(LinesBefore[j], flast.line)
          /\ ~HasToken(LinesBefore[j], <<"#">>)
    /\ fileText # before
    /\ fileText # <<>>

\* C7 as claimed: fuzzy drops exactly the lines whose trimmed content equals
\* the line given.
C7_FuzzyDropsEqualLines ==
    Removed("fuzzy") =>
        fileText = Flatten(SelectSeq(LinesBefore,
            LAMBDA l : Trimmed(l) # flast.line))

\* C7 as amended: fuzzy drops exactly the lines whose trimmed content
\* contains the line given as a contiguous part (so also a line that merely
\* contains it); every other line is kept in its order.
C7_FuzzyDropsContainingLines ==
    Removed("fuzzy") =>
        /\ fileText = Flatten(SelectSeq(LinesBefore,
              LAMBDA l : ~IsPartOf(flast.line, Trimmed(l))))
        /\ readlines(fileText) = SelectSeq(LinesBefore,
              LAMBDA l : ~IsPartOf(flast.line, Trimmed(l)))

C7_Witness ==
    /\ Removed("fuzzy")
    /\ flast.n = 1
    /\ flast.line # <<>>
    /\ \E i, j \in 1..Len(LinesBefore) :
          /\ Trimmed(LinesBefore[i]) # flast.line
          /\ IsPartOf(flast.line, Trimmed(LinesBefore[i]))
          /\ ~IsPartOf(flast.line, Trimmed(LinesBefore[j]))
    /\ fileText # before
    /\ fileText # <<>>

\* C8 as claimed: check_line in fuzzy mode is true iff some line's trimmed
\* content equals the query.
C8_FuzzyCheckIsEquality ==
    Checked("fuzzy") =>
        (fret <=> \E i \in 1..Len(LinesBefore) :
                      Trimmed(LinesBefore[i]) = flast.line)

\* C8 as amended: check_line in fuzzy mode is true iff some line's trimmed
\* content contains the query as a contiguous part; a query that occurs only
\* inside longer lines is found.
C8_FuzzyCheckIsContainment ==
    Checked("fuzzy") =>
        (fret <=> \E i \in 1..Len(LinesBefore) :
                      IsPartOf(flast.line, Trimmed(LinesBefore[i])))

C8_Witness ==
    /\ Checked("fuzzy")
    /\ flast.line # <<>>
    /\ fret
    /\ \A i \in 1..Len(LinesBefore) : Trimmed(LinesBefore[i]) # flast.line

\* C9: word mode removes every line that holds the exact token w and no
\* other line; a line where w is only part of a longer token is kept, and
\* the kept lines are written back unchanged in their order.
C9_WordRemovesTokenLines ==
    Removed("word") =>
        /\ fileText = Flatten(SelectSeq(LinesBefore,
              LAMBDA l : ~HasToken(l, flast.line)))
        /\ readlines(fileText) = SelectSeq(LinesBefore,
              LAMBDA l : ~HasToken(l, flast.line))

C9_Witness ==
    /\ Removed("word")
    /\ flast.n = 1
    /\ \E i, j \in 1..Len(LinesBefore) :
          /\ HasToken(LinesBefore[i], flast.line)
          /\ ~HasToken(LinesBefore[j], flast.line)
          /\ IsPartOf(flast.line, LinesBefore[j])
    /\ fileText # before
    /\ fileText # <<>>

\* C17: in each of the three modes, the same remove_line call made a second
\* time leaves the file as the first call left it.
C17_RemoveLineIdempotent ==
    (flast.op = "remove_line" /\ flast.n = 2) =>
        fileText = remove_line(flast.line, before, flast.mode)

C17_Witness ==
    /\ flast.op = "remove_line"
    /\ flast.n = 2
    /\ fileText # before
    /\ fileText # <<>>
    /\ fileText = remove_line(flast.line, before, flast.mode)

(***************************************************************************)
(* The database: a dict of dicts in memory, a JSON document on disk.      *)
(***************************************************************************)
\* The keys callers store, and the keys they read: AutoInstall is only read.
Keys == {"Verbose", "ShellFile", "Theme"}
ReadKeys == Keys \cup {"AutoInstall"}
Branches == {"beta"}
Shells == {"/bin/bash", "/bin/zsh", "/bin/fish", "unset"}
Answers == {"u", "n", "y"}

OptionMaps == UNION {[D -> Values] : D \in SUBSET Keys}
VersionMaps == {<<>>} \cup {[branch |-> b] : b \in Branches}

\* The databases of the schema: "options" and "version" each present or not.
Docs ==
    {[sec \in S |-> IF sec = "options" THEN o ELSE v] :
        S \in SUBSET {"options", "version"}, o \in OptionMaps, v \in VersionMaps}

\* json.dump(db, dbf) / json.dumps(db): the document as text, here the set of
\* its members, each by its path from the root.
JsonDump(d) ==
    {<<sec>> : sec \in DOMAIN d}
        \cup UNION {{<<sec, k, d[sec][k]>> : k \in DOMAIN d[sec]} : sec \in DOMAIN d}

\* json.load(f): the dict the text spells.
JsonLoad(text) ==
    [sec \in {p[1] : p \in text} |->
        LET members == {p \in text : Len(p) = 3 /\ p[1] = sec}
        IN [k \in {p[2] : p \in members} |->
               (CHOOSE p \in members : p[2] = k)[3]]]

\* db["options"][key] = v, on a db that has "options".
SetOption(d, key, v) ==
    [d EXCEPT !["options"] =
        [k \in (DOMAIN @) \cup {key} |-> IF k = key THEN v ELSE @[k]]]

\* get_shell_file(): what it returns and prints, or the KeyError of an unset
\* SHELL.
get_shell_file(shell, v) ==
    IF shell = "unset"
    THEN [outcome |-> "raised", ret |-> "KeyError",
          out |-> vprint(v, "Auto-detecting shell")]
    ELSE IF shell = "/bin/bash"
    THEN [outcome |-> "returned", ret |-> ".bashrc",
          out |-> vprint(v, "Auto-detecting shell")]
    ELSE IF shell = "/bin/zsh"
    THEN [outcome |-> "returned", ret |-> ".zshrc",
          out |-> vprint(v, "Auto-detecting shell")]
    ELSE [outcome |-> "returned", ret |-> ".bashrc",
          out |-> vprint(v, "Auto-detecting shell")
                    \o vprint(v, "Couldn't auto-detect shell environment! Defaulting to bash...")]

\* read_config(key) as it would be if every missing key other than ShellFile
\* read as False.
read_config_lenient(d, key, shell, v) ==
    IF "options" \in DOMAIN d /\ key \in DOMAIN d["options"]
    THEN [outcome |-> "returned", ret |-> d["options"][key], out |-> <<>>]
    ELSE IF key = "ShellFile" THEN get_shell_file(shell, v)
    ELSE [outcome |-> "returned", ret |-> "false", out |-> <<>>]

\* read_config(key) on database d: [outcome, ret, out].
read_config(d, key, shell, v) ==
    IF "options" \in DOMAIN d /\ key \in DOMAIN d["options"]
    THEN [outcome |-> "returned", ret |-> d["options"][key], out |-> <<>>]
    ELSE IF key \in {"Verbose", "AutoInstall"}
    THEN [outcome |-> "returned", ret |-> "false", out |-> <<>>]
    ELSE IF key = "ShellFile" THEN get_shell_file(shell, v)
    ELSE [outcome |-> "exited", ret |-> "2",
          out |-> <<"Attempted to read a config value that doesn't exist!">>]

\* vcheck().
vcheck(d) == read_config(d, "Verbose", "unset", "false").ret

\* Lines 454-457: branch.
BranchOf(d) ==
    IF "version" \in DOMAIN d /\ "branch" \in DOMAIN d["version"]
    THEN d["version"]["branch"]
    ELSE "master"

\* change_config(key, mode, value) as it would be if the flip of a key went
\* on to write_db() instead of returning at line 106.
change_config_saving(d, key, mode, value) ==
    IF mode = "flip" /\ "options" \in DOMAIN d
    THEN [outcome |-> "returned", ret |-> "None",
          db |-> SetOption(d, key, IF key \in DOMAIN d["options"]
                                   THEN Not(d["options"][key]) ELSE "true"),
          write |-> TRUE]
    ELSE IF "options" \notin DOMAIN d /\ mode \in {"flip", "change"}
    THEN [outcome |-> "raised", ret |-> "KeyError", db |-> d, write |-> FALSE]
    ELSE IF mode = "change"
    THEN [outcome |-> "returned", ret |-> value,
          db |-> SetOption(d, key, value), write |-> FALSE]
    ELSE [outcome |-> "returned", ret |-> "None", db |-> d, write |-> TRUE]

\* change_config(key, mode, value) on database d: [outcome, ret, db, write],
\* write telling whether the call goes on to write_db() (line 114).
change_config(d, key, mode, value) ==
    IF mode = "flip"
    THEN IF "options" \notin DOMAIN d
         THEN \* KeyError in the try, and again in the handler's db["options"]
              [outcome |-> "raised", ret |-> "KeyError", db |-> d, write |-> FALSE]
         ELSE IF key \in DOMAIN d["options"]
         THEN [outcome |-> "returned", ret |-> Not(d["options"][key]),
               db |-> SetOption(d, key, Not(d["options"][key])), write |-> FALSE]
         ELSE [outcome |-> "returned", ret |-> "true",
               db |-> SetOption(d, key, "true"), write |-> FALSE]
    ELSE IF mode = "change"
    THEN IF "options" \notin DOMAIN d
         THEN [outcome |-> "raised", ret |-> "KeyError", db |-> d, write |-> FALSE]
         ELSE [outcome |-> "returned", ret |-> value,
               db |-> SetOption(d, key, value), write |-> FALSE]
    ELSE [outcome |-> "returned", ret |-> "None", db |-> d, write |-> TRUE]

\* open(full("~/.hamstall/database"), "w"): what it raises, "ok" if nothing.
open_w(kind, denied) ==
    IF kind = "nodir" THEN "FileNotFoundError"
    ELSE IF denied THEN "PermissionError"
    ELSE "ok"

DumpNotice ==
    <<"json.dumps(db)",
      "The hamstall database could not be written to! Something is very wrong...",
      "The database has been dumped to the screen; you should keep a copy of it.",
      "You may be able to restore hamstall to working order by placing the above database dump into a file called \"database\" in ~/.hamstall">>

Modes == {"flip", "change", "toggle"}

\* The inputs a call reads: value only in mode "change" (None by default),
\* SHELL only on the way to get_shell_file(), the answer of open() only
\* where write_db() is reached.
ValuesPassed(mode) == IF mode = "change" THEN Values ELSE {"None"}
Denials(mode) == IF mode \in {"flip", "change"} THEN {FALSE} ELSE BOOLEAN
ShellsRead(key) == IF key = "ShellFile" THEN Shells ELSE {"unset"}

DbInit ==
    /\ pc = "start"
    /\ db = <<>>
    /\ disk \in {[kind |-> k, text |-> {}] : k \in {"nodir", "absent", "corrupt"}}
                    \cup {[kind |-> "json", text |-> JsonDump(d)] : d \in Docs}
    /\ verbose = "false"
    /\ branch = "master"
    /\ last = NoCall
    /\ ret = "None"
    /\ out = <<>>
    /\ dumped = [done |-> FALSE, text |-> {}]
    /\ exitStatus = 0
    /\ FileIdle
    /\ LockIdle
    /\ NameIdle

\* Lines 452-457 once get_db() has returned d.
ModuleInit(d) ==
    /\ db' = d
    /\ verbose' = vcheck(d)
    /\ branch' = BranchOf(d)
    /\ pc' = "ready"

\* The import as it would be if get_db() wrote an empty database when it
\* finds none.
LoadCreating ==
    /\ pc = "start"
    /\ last' = [NoCall EXCEPT !.op = "get_db", !.outcome = "returned"]
    /\ IF disk.kind \in {"nodir", "absent"}
       THEN ModuleInit(<<>>) /\ disk' = [kind |-> "json", text |-> JsonDump(<<>>)]
       ELSE IF disk.kind = "json"
       THEN ModuleInit(JsonLoad(disk.text)) /\ UNCHANGED disk
       ELSE /\ pc' = "prompt"
            /\ UNCHANGED <<db, verbose, branch, disk>>
    /\ UNCHANGED <<ret, out, dumped, exitStatus>>

\* Import of the module: get_db() up to its return or its prompt, then the
\* module-level assignments.
Load ==
    /\ pc = "start"
    /\ last' = [NoCall EXCEPT !.op = "get_db", !.outcome = "returned"]
    /\ IF disk.kind \in {"nodir", "absent"} THEN ModuleInit(<<>>)
       ELSE IF disk.kind = "json" THEN ModuleInit(JsonLoad(disk.text))
       ELSE /\ pc' = "prompt"
            /\ UNCHANGED <<db, verbose, branch>>
    /\ UNCHANGED <<disk, ret, out, dumped, exitStatus>>

\* The prompt as it would be if every answer other than u were taken for n.
AnswerLoose(db_check) ==
    /\ pc = "prompt"
    /\ last' = [NoCall EXCEPT !.op = "input", !.value = db_check,
                              !.outcome = "returned"]
    /\ IF db_check = "u"
       THEN ModuleInit(<<>>) /\ UNCHANGED <<out, exitStatus>>
       ELSE /\ out' = <<"Please check your database! Something is horrendously wrong...">>
            /\ exitStatus' = 1
            /\ pc' = "exited"
            /\ UNCHANGED <<db, verbose, branch>>
    /\ UNCHANGED <<disk, ret, dumped>>

\* One turn of the loop of lines 441-443 and, once it is left, the rest of
\* get_db() and of the import.
Answer(db_check) ==
    /\ pc = "prompt"
    /\ last' = [NoCall EXCEPT !.op = "input", !.value = db_check,
                              !.outcome = "returned"]
    /\ IF db_check \notin {"u", "n"}
       THEN UNCHANGED <<pc, db, verbose, branch, out, exitStatus>>
       ELSE IF db_check = "u"
       THEN ModuleInit(<<>>) /\ UNCHANGED <<out, exitStatus>>
       ELSE /\ out' = <<"Please check your database! Something is horrendously wrong...">>
            /\ exitStatus' = 1
            /\ pc' = "exited"
            /\ UNCHANGED <<db, verbose, branch>>
    /\ UNCHANGED <<disk, ret, dumped>>

ReadConfig(key, shell) ==
    /\ pc = "ready"
    /\ LET r == read_config(db, key, shell, verbose)
       IN /\ last' = [NoCall EXCEPT !.op = "read_config", !.key = key,
                                    !.value = shell, !.outcome = r.outcome,
                                    !.absent = ~("options" \in DOMAIN db
                                                 /\ key \in DOMAIN db["options"])]
          /\ ret' = r.ret
          /\ out' = r.out
          /\ exitStatus' = IF r.outcome = "exited" THEN 2 ELSE 0
          /\ pc' = IF r.outcome = "returned" THEN "ready" ELSE r.outcome
    /\ dumped' = [done |-> FALSE, text |-> {}]
    /\ UNCHANGED <<db, disk, verbose, branch>>

\* write_db() up to the return of open(): the file is truncated (empty, so
\* not a JSON document), or the database dumped and the process ended, or the
\* exception let through.
WriteOpen(op, key, mode, value, absent, denied) ==
    LET o == open_w(disk.kind, denied)
        call == [op |-> op, key |-> key, mode |-> mode, value |-> value,
                 absent |-> absent, open |-> o, outcome |-> "running"]
    IN IF o = "ok"
       THEN /\ disk' = [kind |-> "corrupt", text |-> {}]
            /\ pc' = "writing"
            /\ last' = call
            /\ out' = <<>>
            /\ dumped' = [done |-> FALSE, text |-> {}]
            /\ UNCHANGED exitStatus
       ELSE IF o = "FileNotFoundError"
       THEN /\ out' = DumpNotice
            /\ dumped' = [done |-> TRUE, text |-> JsonDump(db)]
            /\ exitStatus' = 3
            /\ pc' = "exited"
            /\ last' = [call EXCEPT !.outcome = "exited"]
            /\ UNCHANGED disk
       ELSE /\ pc' = "raised"
            /\ last' = [call EXCEPT !.outcome = "raised"]
            /\ out' = <<>>
            /\ dumped' = [done |-> FALSE, text |-> {}]
            /\ UNCHANGED <<disk, exitStatus>>

\* json.dump(db, dbf) into the file opened, and the return of the call.
WriteDump ==
    /\ pc = "writing"
    /\ disk' = [kind |-> "json", text |-> JsonDump(db)]
    /\ last' = [last EXCEPT !.outcome = "returned"]
    /\ ret' = "None"
    /\ pc' = "ready"
    /\ UNCHANGED <<db, verbose, branch, out, dumped, exitStatus>>

\* The process ended between open() and the end of json.dump(): killed, or
\* json.dump() raising.  The file stays as open() left it; nothing is caught
\* at lines 180-186 but the FileNotFoundError of open().
Interrupt ==
    /\ pc = "writing"
    /\ last' = [last EXCEPT !.outcome = "killed"]
    /\ pc' = "killed"
    /\ UNCHANGED <<db, disk, verbose, branch, ret, out, dumped, exitStatus>>

WriteDb(denied) ==
    /\ pc = "ready"
    /\ WriteOpen("write_db", "", "", "", FALSE, denied)
    /\ ret' = "None"
    /\ UNCHANGED <<db, verbose, branch>>

\* change_config(key, mode, value) and the write_db() it may go on to, up to
\* the return of open().
ChangeConfigCall(key, mode, value, denied) ==
    /\ pc = "ready"
    /\ LET r == change_config(db, key, mode, value)
           absent == ~("options" \in DOMAIN db /\ key \in DOMAIN db["options"])
       IN /\ db' = r.db
          /\ IF r.write
             THEN /\ WriteOpen("change_config", key, mode, value, absent, denied)
                  /\ ret' = "None"
             ELSE /\ last' = [op |-> "change_config", key |-> key, mode |-> mode,
                              value |-> value, absent |-> absent,
                              open |-> "none", outcome |-> r.outcome]
                  /\ ret' = r.ret
                  /\ pc' = IF r.outcome = "returned" THEN "ready" ELSE "raised"
                  /\ out' = <<>>
                  /\ dumped' = [done |-> FALSE, text |-> {}]
                  /\ UNCHANGED <<disk, exitStatus>>

\* The call as it would be if change_config() assigned the module-level
\* verbose again.
ChangeConfigRefreshing(key, mode, value, denied) ==
    /\ ChangeConfigCall(key, mode, value, denied)
    /\ verbose' = vcheck(db')
    /\ UNCHANGED branch

\* No function assigns verbose or branch (lines 452-457 run once).
ChangeConfig(key, mode, value, denied) ==
    /\ ChangeConfigCall(key, mode, value, denied)
    /\ UNCHANGED <<verbose, branch>>

DbNext ==
    \/ Load /\ UNCHANGED <<fvars, lvars, pvars>>
    \/ \E a \in Answers : Answer(a) /\ UNCHANGED <<fvars, lvars, pvars>>
    \/ \E key \in ReadKeys : \E shell \in ShellsRead(key) :
          ReadConfig(key, shell) /\ UNCHANGED <<fvars, lvars, pvars>>
    \/ \E key \in Keys, mode \in Modes :
          \E value \in ValuesPassed(mode), denied \in Denials(mode) :
             ChangeConfig(key, mode, value, denied) /\ UNCHANGED <<fvars, lvars, pvars>>
    \/ \E denied \in BOOLEAN : WriteDb(denied) /\ UNCHANGED <<fvars, lvars, pvars>>
    \/ WriteDump /\ UNCHANGED <<fvars, lvars, pvars>>
    \/ Interrupt /\ UNCHANGED <<fvars, lvars, pvars>>

SpecDb == DbInit /\ [][DbNext]_vars

(***************************************************************************)
(* The claims about the database.                                          *)
(***************************************************************************)
LastWas(op, mode) == last.op = op /\ last.mode = mode

\* What read_config(key) returns on database d, "(none)" when it does not
\* return.
ReadBack(d, key) ==
    LET r == read_config(d, key, "unset", verbose)
    IN IF r.outcome = "returned" THEN r.ret ELSE "(none)"

\* C1: when change_config(key, "change", value) returns, the document on disk
\* equals the database in memory, the new value of key included.
C1_ChangePersists ==
    (LastWas("change_config", "change") /\ last.outcome = "returned") =>
        /\ disk.kind = "json"
        /\ JsonLoad(disk.text) = db
        /\ <<"options", last.key, last.value>> \in disk.text

\* C4: change_config(k, "change", v) returns v and read_config(k) then returns
\* v, from every database get_db() can produce, the empty one included.
C4_ChangeThenRead ==
    LastWas("change_config", "change") =>
        /\ last.outcome = "returned"
        /\ ret = last.value
        /\ ReadBack(db, last.key) = last.value

\* C5: change_config(k, "flip") on an absent key k returns true and
\* read_config(k) then returns true; a second flip returns false and the read
\* after it returns false; from every database without k, the empty one
\* included.
C5_FlipAbsentKey ==
    (LastWas("change_config", "flip") /\ last.absent) =>
        /\ last.outcome = "returned"
        /\ ret = "true"
        /\ ReadBack(db, last.key) = "true"
        /\ LET second == change_config(db, last.key, "flip", "None")
           IN /\ second.outcome = "returned"
              /\ second.ret = "false"
              /\ ReadBack(second.db, last.key) = "false"

\* C10: whenever write_db() cannot open its destination, whatever the reason,
\* the whole database is printed as JSON and the process ends with status 3;
\* nothing else happens.
C10_WriteFailureDumps ==
    last.open \in {"FileNotFoundError", "PermissionError"} =>
        /\ pc = "exited"
        /\ exitStatus = 3
        /\ dumped.done
        /\ JsonLoad(dumped.text) = db

\* C12: once write_db() has opened the file, in every state (between its
\* steps and after the process has ended there included) the file holds a
\* complete JSON document or the database has been dumped to the terminal.
C12_DiskValidOrDumped ==
    last.open = "ok" => (disk.kind = "json" \/ dumped.done)

\* The shell file the environment stands for.
Detected(shell) == IF shell = "/bin/zsh" THEN ".zshrc" ELSE ".bashrc"

\* A step that is a call read_config(key) on a database without the key.
ReadsAbsent(key) ==
    last'.op = "read_config" /\ last'.key = key /\ last'.absent

\* The read of an absent key other than ShellFile, and what no read changes.
AbsentKeyDefaults ==
    /\ \A key \in {"Verbose", "AutoInstall"} :
          ReadsAbsent(key) => (last'.outcome = "returned" /\ ret' = "false")
    /\ \A key \in ReadKeys \ {"Verbose", "AutoInstall", "ShellFile"} :
          ReadsAbsent(key) => (pc' = "exited" /\ exitStatus' = 2)
    /\ last'.op = "read_config" => (db' = db /\ disk' = disk)

\* C13 as stated: read_config(key) on a database without key returns false
\* for Verbose and AutoInstall, returns the detected shell file for ShellFile,
\* ends the process with status 2 for every other key, and never changes the
\* database.
C13_ReadAbsentKey ==
    [][/\ AbsentKeyDefaults
       /\ ReadsAbsent("ShellFile") =>
             (last'.outcome = "returned" /\ ret' = Detected(last'.value))]_vars

\* C13: as above, the shell file being returned when SHELL is set; with SHELL
\* unset the read of an absent ShellFile raises KeyError.
C13_ReadAbsentKeyShellSet ==
    [][/\ AbsentKeyDefaults
       /\ ReadsAbsent("ShellFile") =>
             IF last'.value = "unset"
             THEN pc' = "raised" /\ ret' = "KeyError"
             ELSE last'.outcome = "returned" /\ ret' = Detected(last'.value)]_vars

C13_Witness ==
    /\ last.op = "read_config"
    /\ last.absent
    /\ last.key = "Theme"
    /\ "options" \in DOMAIN db
    /\ pc = "exited"
    /\ exitStatus = 2

\* C15: every change_config(key, "flip") that returns leaves the file as it
\* was, and in memory changes nothing but options[key].
C15_FlipIsMemoryOnly ==
    [][(LastWas("change_config", "flip")' /\ last'.outcome = "returned") =>
          /\ disk' = disk
          /\ DOMAIN db' = DOMAIN db
          /\ \A sec \in DOMAIN db \ {"options"} : db'[sec] = db[sec]
          /\ DOMAIN db'["options"] = DOMAIN db["options"] \cup {last'.key}
          /\ \A k \in DOMAIN db["options"] \ {last'.key} :
                db'["options"][k] = db["options"][k]
          /\ last'.key \in DOMAIN db["options"] =>
                db'["options"][last'.key] # db["options"][last'.key]]_vars

C15_Witness ==
    /\ LastWas("change_config", "flip")
    /\ last.outcome = "returned"
    /\ pc = "ready"
    /\ disk.kind = "json"
    /\ JsonLoad(disk.text) # db
    /\ \E k \in DOMAIN db["options"] : k # last.key

\* options["Verbose"] of database d as a flag.
OptionVerbose(d) ==
    IF "options" \in DOMAIN d /\ "Verbose" \in DOMAIN d["options"]
    THEN d["options"]["Verbose"]
    ELSE "false"

\* C19: verbose is assigned by the import and by nothing after it: whatever
\* calls follow, vcheck() returns the current options["Verbose"], while
\* verbose, and with it whether vprint() prints, stays as loaded.
C19_VerboseFixedAtLoad ==
    [][/\ (pc \in {"start", "prompt"} /\ pc' = "ready") =>
             verbose' = OptionVerbose(db')
       /\ pc \notin {"start", "prompt"} => verbose' = verbose
       /\ (last'.op = "read_config" /\ last'.key = "Verbose") =>
             ret' = OptionVerbose(db)
       /\ (ReadsAbsent("ShellFile") /\ last'.value # "unset") =>
             (out' # <<>> <=> Truthy(verbose))]_vars

C19_Witness ==
    /\ last.op = "read_config"
    /\ last.key = "ShellFile"
    /\ last.absent
    /\ last.outcome = "returned"
    /\ out = <<>>
    /\ verbose = "false"
    /\ vcheck(db) = "true"

(***************************************************************************)
(* The import alone: get_db() with its prompt, and the module-level        *)
(* assignments.  The operator at the prompt ends by answering u or n.      *)
(***************************************************************************)
LoadNext ==
    \/ Load /\ UNCHANGED <<fvars, lvars, pvars>>
    \/ \E a \in Answers : Answer(a) /\ UNCHANGED <<fvars, lvars, pvars>>

OperatorDecides == \E a \in {"u", "n"} : Answer(a) /\ UNCHANGED <<fvars, lvars, pvars>>

SpecLoad ==
    /\ DbInit
    /\ [][LoadNext]_vars
    /\ WF_vars(Load /\ UNCHANGED <<fvars, lvars, pvars>>)
    /\ WF_vars(OperatorDecides)

\* C11: on a database file that is not valid JSON, get_db() stays at its
\* prompt on every answer other than u and n, returns the empty mapping on u
\* and ends the process with status 1 on n; it never changes the file; and
\* with an operator who ends by answering u or n it ends in one of the two.
C11_PromptLoop ==
    /\ [][pc = "prompt" =>
            /\ disk' = disk
            /\ last'.value \notin {"u", "n"} => (pc' = "prompt" /\ db' = db)
            /\ last'.value = "u" => (pc' = "ready" /\ db' = <<>> /\ exitStatus' = 0)
            /\ last'.value = "n" => (pc' = "exited" /\ exitStatus' = 1)]_vars
    /\ [][(pc = "start" /\ disk.kind = "corrupt") =>
            (pc' = "prompt" /\ disk' = disk)]_vars
    /\ (pc = "prompt") ~>
          \/ pc = "ready" /\ db = <<>> /\ disk.kind = "corrupt"
          \/ pc = "exited" /\ exitStatus = 1 /\ disk.kind = "corrupt"

C11_Witness ==
    /\ disk.kind = "corrupt"
    /\ last.op = "input"
    /\ last.value = "u"
    /\ pc = "ready"
    /\ db = <<>>

\* C14: the import with no database file ends without error: get_db() returns
\* the empty mapping, verbose is false and branch is "master", and the import
\* creates no database file.
C14_FirstRun ==
    [][(pc = "start" /\ disk.kind \in {"absent", "nodir"}) =>
          /\ pc' = "ready"
          /\ db' = <<>>
          /\ verbose' = "false"
          /\ branch' = "master"
          /\ exitStatus' = 0
          /\ disk' = disk]_vars

C14_Witness ==
    /\ disk.kind = "absent"
    /\ last.op = "get_db"
    /\ pc = "ready"
    /\ db = <<>>
    /\ verbose = "false"
    /\ branch = "master"

(***************************************************************************)
(* name() and extension(): a path is the sequence of its characters.       *)
(***************************************************************************)
DirChars == {"a", "/"}
StemChars == {"a", "."}

\* The endings of the paths tried: the four archive and repository endings,
\* two of them in capitals too, the seven characters of a compressed tar, and
\* none.
Endings ==
    {<<".", "7", "z">>, <<".", "7", "Z">>, <<".", "z", "i", "p">>,
     <<".", "Z", "I", "P">>, <<".", "r", "a", "r">>, <<".", "g", "i", "t">>,
     <<".", "t", "a", "r", ".", "g", "z">>, <<>>}

Programs ==
    {d \o st \o e : d \in SeqsUpTo(DirChars, MaxDirLen),
                    st \in SeqsUpTo(StemChars, MaxStemLen), e \in Endings}

\* str.lower() on the characters in use.
lower(s) ==
    [i \in 1..Len(s) |->
        CASE s[i] = "Z" -> "z" [] s[i] = "I" -> "i" [] s[i] = "P" -> "p"
          [] OTHER -> s[i]]

\* s[-n:]: the last n characters, all of s when it is shorter.
LastChars(s, n) == SubSeq(s, IF Len(s) > n THEN Len(s) - n + 1 ELSE 1, Len(s))

\* s[start:stop] with start >= 0; a negative stop counts from the end.
Slice(s, start, stop) ==
    LET hi == IF stop < 0
              THEN (IF Len(s) + stop < 0 THEN 0 ELSE Len(s) + stop)
              ELSE (IF stop > Len(s) THEN Len(s) ELSE stop)
    IN IF start + 1 > hi THEN <<>> ELSE SubSeq(s, start + 1, hi)

\* re.sub(r'.*/', '/', s): everything up to the last "/" becomes "/"; a
\* string without "/" is returned as it is.
re_sub(s) ==
    LET slashes == {i \in 1..Len(s) : s[i] = "/"}
    IN IF slashes = {} THEN s
       ELSE LET k == CHOOSE i \in slashes : \A j \in slashes : j <= i
            IN <<"/">> \o SubSeq(s, k + 1, Len(s))

\* extension(program).
extension(prog) ==
    IF lower(LastChars(prog, 3)) = <<".", "7", "z">>
    THEN lower(LastChars(prog, 3))
    ELSE IF lower(LastChars(prog, 4)) \in
               {<<".", "z", "i", "p">>, <<".", "r", "a", "r">>, <<".", "g", "i", "t">>}
    THEN LastChars(prog, 4)
    ELSE LastChars(prog, 7)

\* name(program).
name(prog) ==
    LET program_internal_name == re_sub(prog)
        extension_length == Len(extension(prog))
    IN Slice(program_internal_name, 1,
             Len(program_internal_name) - extension_length)

NameInit ==
    /\ program \in Programs
    /\ plast = "none"
    /\ pret = <<>>
    /\ FileIdle
    /\ LockIdle
    /\ DbIdle

Name ==
    /\ plast = "none"
    /\ plast' = "name"
    /\ pret' = name(program)
    /\ UNCHANGED program

Extension ==
    /\ plast = "none"
    /\ plast' = "extension"
    /\ pret' = extension(program)
    /\ UNCHANGED program

NameNext ==
    \/ Name /\ UNCHANGED <<fvars, lvars, dvars>>
    \/ Extension /\ UNCHANGED <<fvars, lvars, dvars>>

SpecName == NameInit /\ [][NameNext]_vars

\* The four endings name() is asked to strip.
Recognized ==
    {<<".", "7", "z">>, <<".", "z", "i", "p">>, <<".", "r", "a", "r">>,
     <<".", "g", "i", "t">>}

EndsWith(s, e) == Len(s) >= Len(e) /\ SubSeq(s, Len(s) - Len(e) + 1, Len(s)) = e

\* The text after the last "/" of s, all of s when it has none.
AfterLastSlash(s) ==
    LET starts == {i \in 1..(Len(s) + 1) : \A j \in i..Len(s) : s[j] # "/"}
    IN SubSeq(s, CHOOSE i \in starts : \A j \in starts : i <= j, Len(s))

\* C16: for every path with one of the four endings, with directories or
\* without, name(path) is the text after the last "/" (all of the path when
\* it has none) less the ending.
C16_NameIsBasename ==
    \A e \in Recognized :
        (plast = "name" /\ EndsWith(program, e)) =>
            LET base == AfterLastSlash(program)
            IN pret = SubSeq(base, 1, Len(base) - Len(e))

=============================================================================
